---- MODULE Spec2Model ----
(***************************************************************************)
(* BrowserTabTracker (src/src/browser-tab-tracker/index.ts): every browser *)
(* tab runs one tracker; all tabs share the cross-tab store (a session     *)
(* cookie) and each tab owns a per-tab store (window.sessionStorage).      *)
(***************************************************************************)
EXTENDS Integers, Sequences, FiniteSets, TLC

\* ------------------------------------------------------------------ bounds
\* Number of browser tabs that exist side by side.
NumTabs == 3
\* Number of setup calls, tab closes and reloads in one run.
MaxCalls == 5
\* Number of times the cross-tab store may expire (SpecExpire only).
MaxExpiries == 1

Tabs == 1..NumTabs

\* ------------------------------------------------------------------ constants
\* Strings are sequences of characters, so that the key checks can look at them.
DEFAULT_STORAGE_KEY == <<"b","r","o","w","s","e","r","-","s","e","s","s","i","o","n","-","i","n","f","o">>
CUSTOM_KEY == <<" ", "k">>
INVALID_STORAGE_KEY_ERROR == "Invalid storage key"
SESSION_ID_GENERATOR_NOT_SET_ERROR == "Session ID generator not set"
TYPE_ERROR == "TypeError"
NoError == ""

\* The keys a store is ever addressed with.
Keys == {DEFAULT_STORAGE_KEY, CUSTOM_KEY}

\* `null`: what a store's get returns when nothing is stored, and the initial
\* value of BrowserTabTracker.sessionInfo.
Null == [null |-> TRUE]

SessionInfo(id, tab) == [id |-> id, tab |-> tab]

\* JavaScript truthiness of a SessionInfo-or-null value: every object is truthy.
Truthy(v) == v # Null

\* ------------------------------------------------------------------ serialization
\* A string value, as the adapter's callers may store one.
Str(chars) == [str |-> chars]

\* What a raw store (window.sessionStorage, the cookie jar) holds under a key:
\* nothing, or a text.
NoItem == [absent |-> TRUE]
Item(text) == [text |-> text]

DigitChars == <<"0", "1", "2", "3", "4", "5", "6", "7", "8", "9">>
IsDigit(c) == \E d \in 1..10 : DigitChars[d] = c
DigitValue(c) == (CHOOSE d \in 1..10 : DigitChars[d] = c) - 1

RECURSIVE NatToText(_)
NatToText(n) ==
  IF n < 10 THEN <<DigitChars[n + 1]>>
  ELSE NatToText(n \div 10) \o <<DigitChars[(n % 10) + 1]>>

IntToText(n) == IF n < 0 THEN <<"-">> \o NatToText(0 - n) ELSE NatToText(n)

TEXT_ID == <<"{", "\"", "i", "d", "\"", ":">>
TEXT_TAB == <<",", "\"", "t", "a", "b", "\"", ":">>

\* JSON.stringify on the values the model stores: a string without quotes or
\* backslashes, and a SessionInfo with a numeric id.
JSONstringify(v) ==
  IF "str" \in DOMAIN v THEN <<"\"">> \o v.str \o <<"\"">>
  ELSE TEXT_ID \o IntToText(v.id) \o TEXT_TAB \o IntToText(v.tab) \o <<"}">>

IsPrefix(p, s) == Len(p) <= Len(s) /\ SubSeq(s, 1, Len(p)) = p

\* Is s a JSON integer: an optional minus sign, then digits without a leading zero.
IsIntText(s) ==
  LET digits == IF Len(s) > 0 /\ s[1] = "-" THEN Tail(s) ELSE s IN
  /\ Len(digits) > 0
  /\ \A i \in 1..Len(digits) : IsDigit(digits[i])
  /\ Len(digits) > 1 => digits[1] # "0"

RECURSIVE NatValue(_)
NatValue(digits) ==
  IF digits = <<>> THEN 0
  ELSE NatValue(SubSeq(digits, 1, Len(digits) - 1)) * 10 + DigitValue(digits[Len(digits)])

IntValue(s) == IF s[1] = "-" THEN 0 - NatValue(Tail(s)) ELSE NatValue(s)

Failed == [ok |-> FALSE, value |-> Null]
Parsed(v) == [ok |-> TRUE, value |-> v]

\* The text of an object {"id":<int>,"tab":<int>}, read from left to right.
ParseSessionInfo(text) ==
  IF ~IsPrefix(TEXT_ID, text) \/ text[Len(text)] # "}" THEN Failed
  ELSE
    LET rest == SubSeq(text, Len(TEXT_ID) + 1, Len(text) - 1)
        commas == {i \in 1..Len(rest) : rest[i] = ","}
    IN  IF commas = {} THEN Failed
        ELSE
          LET comma == CHOOSE i \in commas : \A j \in commas : i <= j
              id == SubSeq(rest, 1, comma - 1)
              member == SubSeq(rest, comma, Len(rest))
          IN  IF ~IsPrefix(TEXT_TAB, member) THEN Failed
              ELSE
                LET tab == SubSeq(member, Len(TEXT_TAB) + 1, Len(member))
                IN  IF IsIntText(id) /\ IsIntText(tab)
                      THEN Parsed(SessionInfo(IntValue(id), IntValue(tab)))
                      ELSE Failed

\* JSON.parse on the texts of the model: the texts JSONstringify writes, and
\* texts that are not JSON, on which it throws (ok = FALSE).
JSONparse(text) ==
  IF text = <<>> THEN Failed
  ELSE IF text[1] = "\""
    THEN IF /\ Len(text) >= 2
            /\ text[Len(text)] = "\""
            /\ \A i \in 2..(Len(text) - 1) : text[i] \notin {"\"", "\\"}
           THEN Parsed(Str(SubSeq(text, 2, Len(text) - 1)))
           ELSE Failed
  ELSE IF text[1] = "{" THEN ParseSessionInfo(text)
  ELSE Failed

\* A get that lets the parse error of a text that is not JSON out.
StorageServiceGet_Raises(item, defaultValue) ==
  IF item = NoItem THEN defaultValue
  ELSE LET parsed == JSONparse(item.text) IN
       IF parsed.ok THEN parsed.value ELSE [error |-> "SyntaxError"]

\* StorageService's way from a raw item to the value a get returns: the default
\* when nothing is stored, null when the text does not parse.
StorageServiceGet(item, defaultValue) ==
  IF item = NoItem THEN defaultValue
  ELSE LET parsed == JSONparse(item.text) IN
       IF parsed.ok THEN parsed.value ELSE Null

\* StorageService's way from a value to the raw item a set stores.
StorageServiceSet(value) == Item(JSONstringify(value))

\* /^\s*$/
WhitespaceChars == {" ", "\t", "\n"}
REGEX_EMPTY_STRING(s) == \A i \in 1..Len(s) : s[i] \in WhitespaceChars

\* The storageKey option: absent (undefined) or a string.
NoKey == [given |-> FALSE, str |-> <<>>]
Key(s) == [given |-> TRUE, str |-> s]
\* JavaScript truthiness of `options.storageKey`: undefined and '' are falsy.
TruthyString(k) == k.given /\ k.str # <<>>

StorageKeyOptions == {NoKey, Key(<<>>), Key(<<" ">>), Key(CUSTOM_KEY)}

Options ==
  [sessionIdGenerator : BOOLEAN,
   sessionStartedCallback : BOOLEAN,
   newTabOpenedCallback : BOOLEAN,
   storageKey : StorageKeyOptions]

\* Every page of the application runs the same setup code, so every tab passes
\* the same options when it sets its tracker up. The callbacks and the key do
\* not depend on each other in the code: the callbacks vary without a key, the
\* key varies with both callbacks.
AppOptions ==
  {o \in Options :
     /\ o.sessionIdGenerator
     /\ (o.storageKey = NoKey \/ (o.sessionStartedCallback /\ o.newTabOpenedCallback))}

\* Calls beside the setup call: a call without a generator on a tracker that is
\* not resolved, and duplicate calls with the same or other options on one that is.
BadOptions(o) == {[o EXCEPT !.sessionIdGenerator = FALSE]}

AgainOptions(o) ==
  {o, [o EXCEPT !.storageKey = IF @ = Key(CUSTOM_KEY) THEN NoKey ELSE Key(CUSTOM_KEY),
                !.sessionStartedCallback = ~@]}

\* ------------------------------------------------------------------ state
VARIABLES
  config,          \* the options the application's setup code passes to initialize
  Cookies,         \* the cookie jar all tabs share: key -> NoItem or an item of text
  windowSessionStorage,  \* window.sessionStorage of each tab: key -> NoItem or an item
  cookie,          \* cross-tab store: key -> the value set last, Null if none is stored
  sessionStorage,  \* per-tab store of each tab: key -> the value set last, or Null
  tracker,         \* the BrowserTabTracker instance of each tab's page
  onbeforeunload,  \* window.onbeforeunload of each tab's page: is the hook set
  genCalls,        \* how often a sessionIdGenerator has been invoked
  pc,              \* where each tab's initialize call stands
  frame,           \* the suspended initialize call of each tab
  log,             \* what the handler that ran last did, in order
  overlap,         \* has an initialize run while another tab was inside one
  calls,           \* how many setup calls, closes and reloads have begun
  registered,      \* the tabs that registered as a new tab and have not unloaded since
  expiries,        \* how often the cross-tab store has expired
  refired          \* has the unload hook run a second time in the life of one tab

vars == <<config, Cookies, windowSessionStorage, cookie, sessionStorage, tracker, onbeforeunload, genCalls, pc, frame,
          log, overlap, calls, registered, expiries, refired>>

\* A BrowserTabTracker right after construction (lines 21-33).
NewTracker ==
  [storageKeyName |-> DEFAULT_STORAGE_KEY,
   sessionInfo |-> Null,
   sessionIdGenerator |-> FALSE,
   sessionStartedCallback |-> FALSE,
   newTabOpenedCallback |-> FALSE,
   newSessionCreated |-> FALSE]

EmptyStore == [k \in Keys |-> Null]
NoItems == [k \in Keys |-> NoItem]

\* The local variables of an initialize call suspended inside generateNewTabId.
NoFrame == [sessionInfo |-> Null, log |-> <<>>]

\* One entry of the log: what was called, on which tab's page, with which key and
\* which value (an argument, or the value returned).
Event(name, t, key, v) == [ev |-> name, tab |-> t, key |-> key, val |-> v]

\* ------------------------------------------------------------------ one call
\* A handler runs on a machine m: the tracker (`this`), the tab's per-tab store,
\* the cross-tab store, the generator's call count, the page's unload hook, the
\* local variable sessionInfo, the error thrown (if any) and the log of the call.
Machine(t) ==
  [tab |-> t, this |-> tracker[t], ss |-> sessionStorage[t], ck |-> cookie,
   ssItems |-> windowSessionStorage[t], ckItems |-> Cookies,
   gen |-> genCalls, hook |-> onbeforeunload[t], sessionInfo |-> frame[t].sessionInfo,
   err |-> NoError, log |-> frame[t].log, pc |-> "idle"]

Logged(m, name, key, v) == [m EXCEPT !.log = Append(@, Event(name, m.tab, key, v))]

Throw(m, error) ==
  [Logged(m, "throw", <<>>, [error |-> error]) EXCEPT !.err = error, !.pc = "idle"]

\* StorageService.sessionStorageGet(key): the item of window.sessionStorage,
\* parsed, into the local sessionInfo.
sessionStorageGet(m, key) ==
  [Logged(m, "sessionStorageGet", key, Null)
     EXCEPT !.sessionInfo = StorageServiceGet(m.ssItems[key], Null)]

\* StorageService.sessionCookieGet(key): the cookie, parsed, into the local
\* sessionInfo.
sessionCookieGet(m, key) ==
  [Logged(m, "sessionCookieGet", key, Null)
     EXCEPT !.sessionInfo = StorageServiceGet(m.ckItems[key], Null)]

\* StorageService.sessionStorageSet(key, value): the value as text into
\* window.sessionStorage; ss keeps the value itself.
sessionStorageSet(m, key, value) ==
  [Logged(m, "sessionStorageSet", key, value)
     EXCEPT !.ssItems[key] = StorageServiceSet(value), !.ss[key] = value]

\* StorageService.sessionCookieSet(key, value): the value as text into the
\* cookie jar; ck keeps the value itself.
sessionCookieSet(m, key, value) ==
  [Logged(m, "sessionCookieSet", key, value)
     EXCEPT !.ckItems[key] = StorageServiceSet(value), !.ck[key] = value]

\* The caller's sessionIdGenerator: every call returns an id not returned before.
sessionIdGenerator(m) == m.gen + 1

\* validateSessionIdGenerator that accepts a missing generator.
validateSessionIdGenerator_Never(m, generator) == m

validateSessionIdGenerator(m, generator) ==
  IF ~generator THEN Throw(m, SESSION_ID_GENERATOR_NOT_SET_ERROR) ELSE m

validateKey(m, key) ==
  IF key = <<>> \/ REGEX_EMPTY_STRING(key) THEN Throw(m, INVALID_STORAGE_KEY_ERROR) ELSE m

\* startNewSession with the count of a new session starting at 1.
startNewSession_FromOne(m) ==
  LET id == sessionIdGenerator(m) IN
  [Logged(m, "sessionIdGenerator", <<>>, [id |-> id])
     EXCEPT !.this.newSessionCreated = TRUE,
            !.gen = @ + 1,
            !.sessionInfo = SessionInfo(id, 1)]

startNewSession(m) ==
  LET id == sessionIdGenerator(m) IN
  [Logged(m, "sessionIdGenerator", <<>>, [id |-> id])
     EXCEPT !.this.newSessionCreated = TRUE,
            !.gen = @ + 1,
            !.sessionInfo = SessionInfo(id, 0)]

\* window.onbeforeunload = () => {...}
listenOnTabCloseEvent(m) ==
  [Logged(m, "listenOnTabCloseEvent", <<>>, Null) EXCEPT !.hook = TRUE]

\* generateNewTabId up to and including its read of the cross-tab store (line 118).
generateNewTabIdRead(m) ==
  [sessionCookieGet(m, m.this.storageKeyName) EXCEPT !.pc = "generateNewTabId"]

\* generateNewTabId after the read, taking a record with count 0 for no record
\* (`!sessionInfo || !sessionInfo.tab`).
generateNewTabIdWrite_ZeroIsNew(m) ==
  LET m1 == IF ~Truthy(m.sessionInfo) \/ m.sessionInfo.tab = 0
              THEN startNewSession(m) ELSE m
      m2 == [m1 EXCEPT !.sessionInfo.tab = @ + 1]
      m3 == IF m2.this.newTabOpenedCallback
              THEN Logged(m2, "newTabOpenedCallback", <<>>, [tab |-> m2.sessionInfo.tab])
              ELSE m2
      m4 == sessionCookieSet(m3, m3.this.storageKeyName, m3.sessionInfo)
  IN  sessionStorageSet(m4, m4.this.storageKeyName, m4.sessionInfo)

\* generateNewTabId after the read, starting a new session whatever it read.
generateNewTabIdWrite_AlwaysNew(m) ==
  LET m1 == startNewSession(m)
      m2 == [m1 EXCEPT !.sessionInfo.tab = @ + 1]
      m3 == IF m2.this.newTabOpenedCallback
              THEN Logged(m2, "newTabOpenedCallback", <<>>, [tab |-> m2.sessionInfo.tab])
              ELSE m2
      m4 == sessionCookieSet(m3, m3.this.storageKeyName, m3.sessionInfo)
  IN  sessionStorageSet(m4, m4.this.storageKeyName, m4.sessionInfo)

\* generateNewTabId after the read, saving the count in the per-tab store alone.
generateNewTabIdWrite_NoCookieSet(m) ==
  LET m1 == IF ~Truthy(m.sessionInfo) THEN startNewSession(m) ELSE m
      m2 == [m1 EXCEPT !.sessionInfo.tab = @ + 1]
      m3 == IF m2.this.newTabOpenedCallback
              THEN Logged(m2, "newTabOpenedCallback", <<>>, [tab |-> m2.sessionInfo.tab])
              ELSE m2
  IN  sessionStorageSet(m3, m3.this.storageKeyName, m3.sessionInfo)

\* generateNewTabId after the read, reading the cross-tab store once more right
\* before it writes, so that no update of another tab is lost.
generateNewTabIdWrite_ReadAgain(m) ==
  LET m0 == [m EXCEPT !.sessionInfo = StorageServiceGet(m.ckItems[m.this.storageKeyName], Null)]
      m1 == IF ~Truthy(m0.sessionInfo) THEN startNewSession(m0) ELSE m0
      m2 == [m1 EXCEPT !.sessionInfo.tab = @ + 1]
      m3 == IF m2.this.newTabOpenedCallback
              THEN Logged(m2, "newTabOpenedCallback", <<>>, [tab |-> m2.sessionInfo.tab])
              ELSE m2
      m4 == sessionCookieSet(m3, m3.this.storageKeyName, m3.sessionInfo)
  IN  sessionStorageSet(m4, m4.this.storageKeyName, m4.sessionInfo)

\* generateNewTabId after the read, calling newTabOpenedCallback after it has
\* saved the record instead of before.
generateNewTabIdWrite_NotifyAfterSave(m) ==
  LET m1 == IF ~Truthy(m.sessionInfo) THEN startNewSession(m) ELSE m
      m2 == [m1 EXCEPT !.sessionInfo.tab = @ + 1]
      m3 == sessionCookieSet(m2, m2.this.storageKeyName, m2.sessionInfo)
      m4 == sessionStorageSet(m3, m3.this.storageKeyName, m3.sessionInfo)
  IN  IF m4.this.newTabOpenedCallback
        THEN Logged(m4, "newTabOpenedCallback", <<>>, [tab |-> m4.sessionInfo.tab])
        ELSE m4

\* generateNewTabId after the read (lines 119-132).
generateNewTabIdWrite(m) ==
  LET m1 == IF ~Truthy(m.sessionInfo) THEN startNewSession(m) ELSE m
      m2 == [m1 EXCEPT !.sessionInfo.tab = @ + 1]
      m3 == IF m2.this.newTabOpenedCallback
              THEN Logged(m2, "newTabOpenedCallback", <<>>, [tab |-> m2.sessionInfo.tab])
              ELSE m2
      m4 == sessionCookieSet(m3, m3.this.storageKeyName, m3.sessionInfo)
  IN  sessionStorageSet(m4, m4.this.storageKeyName, m4.sessionInfo)

\* initialize from the assignment of line 81 to its return.
initializeReturn(m) ==
  LET m1 == [m EXCEPT !.this.sessionInfo = m.sessionInfo, !.pc = "idle"]
      m2 == IF m1.this.newSessionCreated /\ m1.this.sessionStartedCallback
              THEN Logged(m1, "sessionStartedCallback", <<>>, m1.this.sessionInfo)
              ELSE m1
  IN  listenOnTabCloseEvent(m2)

\* generateSessionInfo that registers a new tab whatever the per-tab store holds.
generateSessionInfo_AlwaysNewTab(m) ==
  generateNewTabIdRead(sessionStorageGet(m, m.this.storageKeyName))

\* generateSessionInfo up to the read of the cross-tab store, or to its return
\* when the per-tab store holds a record.
generateSessionInfo(m) ==
  LET m1 == sessionStorageGet(m, m.this.storageKeyName) IN
  IF ~Truthy(m1.sessionInfo) THEN generateNewTabIdRead(m1) ELSE initializeReturn(m1)

\* initialize without the test of line 69: a resolved tracker resolves again.
initializeEnter_NoGuard(m0, options) ==
  LET m == Logged(m0, "initialize", <<>>, options)
      m1 == validateSessionIdGenerator(m, options.sessionIdGenerator)
  IN  IF m1.err # NoError THEN m1
      ELSE
        LET m2 == [m1 EXCEPT !.this.sessionIdGenerator = options.sessionIdGenerator,
                             !.this.sessionStartedCallback = options.sessionStartedCallback,
                             !.this.newTabOpenedCallback = options.newTabOpenedCallback]
            m3 == IF TruthyString(options.storageKey)
                    THEN validateKey(m2, options.storageKey.str) ELSE m2
        IN  IF m3.err # NoError THEN m3
            ELSE
              LET m4 == IF TruthyString(options.storageKey)
                          THEN [m3 EXCEPT !.this.storageKeyName = options.storageKey.str]
                          ELSE m3
              IN  generateSessionInfo(m4)

\* initialize up to the first point where another tab can act in between: the
\* end of the call, or the read of the cross-tab store inside generateNewTabId.
initializeEnter(m0, options) ==
  LET m == Logged(m0, "initialize", <<>>, options) IN
  IF Truthy(m.this.sessionInfo) THEN listenOnTabCloseEvent(m)
  ELSE
    LET m1 == validateSessionIdGenerator(m, options.sessionIdGenerator) IN
    IF m1.err # NoError THEN m1
    ELSE
      LET m2 == [m1 EXCEPT !.this.sessionIdGenerator = options.sessionIdGenerator,
                           !.this.sessionStartedCallback = options.sessionStartedCallback,
                           !.this.newTabOpenedCallback = options.newTabOpenedCallback]
          m3 == IF TruthyString(options.storageKey)
                  THEN validateKey(m2, options.storageKey.str) ELSE m2
      IN  IF m3.err # NoError THEN m3
          ELSE
            LET m4 == IF TruthyString(options.storageKey)
                        THEN [m3 EXCEPT !.this.storageKeyName = options.storageKey.str]
                        ELSE m3
            IN  generateSessionInfo(m4)

\* The rest of an initialize call that stands after the read of the cross-tab store.
initializeResume(m) == initializeReturn(generateNewTabIdWrite(m))

\* BrowserTabTracker.initialize, the whole call.
initialize(m, options) ==
  LET m1 == initializeEnter(m, options) IN
  IF m1.pc = "generateNewTabId" THEN initializeResume(m1) ELSE m1

\* The unload hook lowering the count by 2.
beforeunloadHandler_ByTwo(m) ==
  LET key == m.this.storageKeyName
      m1 == sessionStorageGet(Logged(m, "onbeforeunload", <<>>, Null), key)
  IN  IF ~Truthy(m1.sessionInfo) THEN Throw(m1, TYPE_ERROR)
      ELSE
        LET m2 == [m1 EXCEPT !.sessionInfo.tab = @ - 2]
            m3 == sessionCookieSet(m2, key, m2.sessionInfo)
        IN  sessionStorageSet(m3, key, m3.sessionInfo)

\* The function listenOnTabCloseEvent assigns to window.onbeforeunload.
beforeunloadHandler(m) ==
  LET key == m.this.storageKeyName
      m1 == sessionStorageGet(Logged(m, "onbeforeunload", <<>>, Null), key)
  IN  IF ~Truthy(m1.sessionInfo) THEN Throw(m1, TYPE_ERROR)
      ELSE
        LET m2 == [m1 EXCEPT !.sessionInfo.tab = @ - 1]
            m3 == sessionCookieSet(m2, key, m2.sessionInfo)
        IN  sessionStorageSet(m3, key, m3.sessionInfo)

\* The page of a tab goes away: the browser calls window.onbeforeunload if set.
unload(m) == IF m.hook THEN beforeunloadHandler(m) ELSE m

\* The accessors of the tracker of tab t (lines 40-58).
\* tabId answering from the cross-tab store.
tabId_FromCookie(t) == cookie[tracker[t].storageKeyName].tab

tabId(t) == tracker[t].sessionInfo.tab
sessionId(t) == tracker[t].sessionInfo.id
storageKey(t) == tracker[t].storageKeyName

\* What reading an accessor gives the caller: the value returned, or the error
\* thrown.
Returned(v) == [returned |-> v]
Raised(error) == [raised |-> error]

\* Reading tracker.tabId, tracker.sessionId and tracker.storageKey of tab t
\* (lines 40-58): a property of the null sessionInfo cannot be read, the
\* storageKeyName is returned whatever the tracker's state.
get_tabId(t) ==
  IF tracker[t].sessionInfo = Null THEN Raised(TYPE_ERROR) ELSE Returned(tabId(t))
get_sessionId(t) ==
  IF tracker[t].sessionInfo = Null THEN Raised(TYPE_ERROR) ELSE Returned(sessionId(t))
get_storageKey(t) == Returned(storageKey(t))

\* ------------------------------------------------------------------ actions
Init ==
  /\ config \in AppOptions
  /\ Cookies = NoItems
  /\ windowSessionStorage = [t \in Tabs |-> NoItems]
  /\ cookie = EmptyStore
  /\ sessionStorage = [t \in Tabs |-> EmptyStore]
  /\ tracker = [t \in Tabs |-> NewTracker]
  /\ onbeforeunload = [t \in Tabs |-> FALSE]
  /\ genCalls = 0
  /\ pc = [t \in Tabs |-> "idle"]
  /\ frame = [t \in Tabs |-> NoFrame]
  /\ log = <<>>
  /\ overlap = FALSE
  /\ calls = 0
  /\ registered = {}
  /\ expiries = 0
  /\ refired = FALSE

\* Is some other tab inside an initialize call.
OtherTabSuspended(t) == \E u \in Tabs \ {t} : pc[u] # "idle"

\* The state a step of a call of tab t leaves behind; begins: the step starts a
\* call that counts (a setup call, a close, a reload).
Commit(t, m, begins) ==
  /\ Cookies' = m.ckItems
  /\ cookie' = m.ck
  /\ genCalls' = m.gen
  /\ pc' = [pc EXCEPT ![t] = m.pc]
  /\ frame' = [frame EXCEPT ![t] =
                 IF m.pc = "idle" THEN NoFrame
                 ELSE [sessionInfo |-> m.sessionInfo, log |-> m.log]]
  /\ log' = m.log
  /\ overlap' = (overlap \/ (begins /\ OtherTabSuspended(t)))
  /\ calls' = IF begins THEN calls + 1 ELSE calls
  /\ UNCHANGED <<config, expiries>>

\* Did the call of machine m go through generateNewTabId to its end.
RegisteredNewTab(m) ==
  \E i \in 1..Len(m.log) : m.log[i].ev = "sessionStorageSet" /\ m.log[1].ev = "initialize"

\* The page of tab t after a step of a call on its tracker.
CommitPage(t, m) ==
  /\ tracker' = [tracker EXCEPT ![t] = m.this]
  /\ windowSessionStorage' = [windowSessionStorage EXCEPT ![t] = m.ssItems]
  /\ sessionStorage' = [sessionStorage EXCEPT ![t] = m.ss]
  /\ onbeforeunload' = [onbeforeunload EXCEPT ![t] = m.hook]
  /\ registered' = IF RegisteredNewTab(m) THEN registered \cup {t} ELSE registered
  /\ refired' = refired

\* The page of tab t is gone: the next page of the slot has a new tracker and no
\* unload hook yet. A page with the hook set that did not register as a new tab
\* resolved from the per-tab store, which only an earlier unload hook of the
\* same tab can have filled: its hook is the tab's second or later.
NewPage(t) ==
  /\ tracker' = [tracker EXCEPT ![t] = NewTracker]
  /\ onbeforeunload' = [onbeforeunload EXCEPT ![t] = FALSE]
  /\ registered' = registered \ {t}
  /\ refired' = (refired \/ (onbeforeunload[t] /\ t \notin registered))

\* The setup code of tab t calls tracker.initialize(config); the call runs to its end.
Initialize(t) ==
  /\ pc[t] = "idle"
  /\ calls < MaxCalls
  /\ ~Truthy(tracker[t].sessionInfo)
  /\ LET m == initialize(Machine(t), config) IN
       CommitPage(t, m) /\ Commit(t, m, TRUE)

\* The same call, up to the point where another tab can act: its end, or its
\* read of the cross-tab store.
InitializeBegin(t) ==
  /\ pc[t] = "idle"
  /\ calls < MaxCalls
  /\ ~Truthy(tracker[t].sessionInfo)
  /\ LET m == initializeEnter(Machine(t), config) IN
       CommitPage(t, m) /\ Commit(t, m, TRUE)

\* The rest of the setup call of tab t.
InitializeEnd(t) ==
  /\ pc[t] = "generateNewTabId"
  /\ LET m == initializeResume(Machine(t)) IN
       CommitPage(t, m) /\ Commit(t, m, FALSE)

\* tracker.initialize is called again on the resolved tracker of tab t.
InitializeAgain(t, options) ==
  /\ pc[t] = "idle"
  /\ Truthy(tracker[t].sessionInfo)
  /\ LET m == initialize(Machine(t), options) IN
       CommitPage(t, m) /\ Commit(t, m, FALSE)

\* tracker.initialize is called on the unresolved tracker of tab t without a
\* generator.
InitializeBad(t, options) ==
  /\ pc[t] = "idle"
  /\ ~Truthy(tracker[t].sessionInfo)
  /\ LET m == initialize(Machine(t), options) IN
       CommitPage(t, m) /\ Commit(t, m, FALSE)

\* Tab t is closed: the unload hook runs, then the page and the tab's per-tab
\* store are gone. The slot stands for a new tab from then on.
CloseTab(t) ==
  /\ pc[t] = "idle"
  /\ calls < MaxCalls
  /\ LET m == unload(Machine(t)) IN
       /\ NewPage(t)
       /\ windowSessionStorage' = [windowSessionStorage EXCEPT ![t] = NoItems]
       /\ sessionStorage' = [sessionStorage EXCEPT ![t] = EmptyStore]
       /\ Commit(t, m, TRUE)

\* Tab t is reloaded: the unload hook runs, the page is replaced by a new one with
\* a new tracker, the tab's per-tab store survives.
ReloadTab(t) ==
  /\ pc[t] = "idle"
  /\ calls < MaxCalls
  /\ LET m == unload(Machine(t)) IN
       /\ NewPage(t)
       /\ windowSessionStorage' = [windowSessionStorage EXCEPT ![t] = m.ssItems]
       /\ sessionStorage' = [sessionStorage EXCEPT ![t] = m.ss]
       /\ Commit(t, m, TRUE)

\* The cross-tab store drops the record under key k (the cookie expires or is
\* cleared by the user).
ExpireCookie(k) ==
  /\ expiries < MaxExpiries
  /\ Truthy(cookie[k])
  /\ Cookies' = [Cookies EXCEPT ![k] = NoItem]
  /\ cookie' = [cookie EXCEPT ![k] = Null]
  /\ expiries' = expiries + 1
  /\ log' = <<>>
  /\ UNCHANGED <<config, windowSessionStorage, sessionStorage, tracker, onbeforeunload,
                 genCalls, pc,
                 frame, overlap, calls, registered, refired>>

\* Every handler runs to its end before another tab acts.
Next ==
  \/ \E t \in Tabs : Initialize(t)
  \/ \E t \in Tabs, options \in AgainOptions(config) : InitializeAgain(t, options)
  \/ \E t \in Tabs, options \in BadOptions(config) : InitializeBad(t, options)
  \/ \E t \in Tabs : CloseTab(t)
  \/ \E t \in Tabs : ReloadTab(t)

Spec == Init /\ [][Next]_vars

\* Tabs interleave at every access to the cross-tab store.
NextRace ==
  \/ \E t \in Tabs : InitializeBegin(t)
  \/ \E t \in Tabs : InitializeEnd(t)
  \/ \E t \in Tabs : CloseTab(t)
  \/ \E t \in Tabs : ReloadTab(t)

SpecRace == Init /\ [][NextRace]_vars

\* Handlers run to their end, and the cross-tab store may expire.
NextExpire ==
  \/ \E t \in Tabs : Initialize(t)
  \/ \E t \in Tabs : CloseTab(t)
  \/ \E t \in Tabs : ReloadTab(t)
  \/ \E k \in Keys : ExpireCookie(k)

SpecExpire == Init /\ [][NextExpire]_vars

\* Tabs are opened and closed, nothing else.
NextOpenClose ==
  \/ \E t \in Tabs : Initialize(t)
  \/ \E t \in Tabs : CloseTab(t)

SpecOpenClose == Init /\ [][NextOpenClose]_vars

\* A reload of the page, whole: the unload hook of the old page runs, then the
\* setup code of the new page calls initialize on a new tracker; the per-tab
\* store is the same throughout.
reload(m, options) ==
  LET m1 == unload(m) IN
  initialize([m1 EXCEPT !.this = NewTracker, !.hook = FALSE], options)

\* The resolved tab t is reloaded and its new page is set up before another tab acts.
Reload(t) ==
  /\ pc[t] = "idle"
  /\ calls < MaxCalls
  /\ Truthy(tracker[t].sessionInfo)
  /\ LET m == reload(Machine(t), config) IN
       /\ tracker' = [tracker EXCEPT ![t] = m.this]
       /\ windowSessionStorage' = [windowSessionStorage EXCEPT ![t] = m.ssItems]
       /\ sessionStorage' = [sessionStorage EXCEPT ![t] = m.ss]
       /\ onbeforeunload' = [onbeforeunload EXCEPT ![t] = m.hook]
       /\ registered' = registered \ {t}
       /\ refired' = (refired \/ t \notin registered)
       /\ Commit(t, m, TRUE)

\* Tabs are opened, reloaded as a whole, and closed.
NextReload ==
  \/ \E t \in Tabs : Initialize(t)
  \/ \E t \in Tabs : Reload(t)
  \/ \E t \in Tabs : CloseTab(t)

SpecReload == Init /\ [][NextReload]_vars

\* ------------------------------------------------------------------ the adapter alone
\* The StorageService of one page, called directly: the page of tab 1, its
\* window.sessionStorage and the cookie jar.
StoragePage == 1

\* The values callers store, the default a caller may supply (Null: none), and
\* texts that are not JSON, as something other than the adapter may leave them.
StoredValues == {SessionInfo(1, 1), SessionInfo(12, 0 - 3), Str(<<"m", "y">>)}
DefaultValues == {Null, Str(<<"d">>)}
InvalidTexts == {<<"f", "o", "o", ":", " ", "b", "a", "r">>, TEXT_ID \o <<"1">>}

\* What a step of the adapter leaves alone: the trackers and their calls.
AdapterOnly ==
  UNCHANGED <<config, tracker, onbeforeunload, genCalls, pc, frame, overlap, calls,
              registered, expiries, refired>>

\* service.sessionStorageSet(k, v)
StorageSet(k, v) ==
  /\ windowSessionStorage' =
       [windowSessionStorage EXCEPT ![StoragePage][k] = StorageServiceSet(v)]
  /\ sessionStorage' = [sessionStorage EXCEPT ![StoragePage][k] = v]
  /\ log' = <<Event("sessionStorageSet", StoragePage, k, v)>>
  /\ UNCHANGED <<Cookies, cookie>>
  /\ AdapterOnly

\* service.sessionCookieSet(k, v)
CookieSet(k, v) ==
  /\ Cookies' = [Cookies EXCEPT ![k] = StorageServiceSet(v)]
  /\ cookie' = [cookie EXCEPT ![k] = v]
  /\ log' = <<Event("sessionCookieSet", StoragePage, k, v)>>
  /\ UNCHANGED <<windowSessionStorage, sessionStorage>>
  /\ AdapterOnly

\* service.sessionStorageGet(k, d): the log keeps the default and the value returned.
StorageGet(k, d) ==
  /\ log' = <<Event("sessionStorageGet", StoragePage, k,
                    [defaultValue |-> d,
                     returned |-> StorageServiceGet(windowSessionStorage[StoragePage][k], d)])>>
  /\ UNCHANGED <<Cookies, cookie, windowSessionStorage, sessionStorage>>
  /\ AdapterOnly

\* service.sessionCookieGet(k, d)
CookieGet(k, d) ==
  /\ log' = <<Event("sessionCookieGet", StoragePage, k,
                    [defaultValue |-> d, returned |-> StorageServiceGet(Cookies[k], d)])>>
  /\ UNCHANGED <<Cookies, cookie, windowSessionStorage, sessionStorage>>
  /\ AdapterOnly

\* Something other than the adapter leaves a text that is not JSON in
\* window.sessionStorage: no value a set has written is stored under k any more.
StorageForeignWrite(k, text) ==
  /\ windowSessionStorage' = [windowSessionStorage EXCEPT ![StoragePage][k] = Item(text)]
  /\ sessionStorage' = [sessionStorage EXCEPT ![StoragePage][k] = Null]
  /\ log' = <<>>
  /\ UNCHANGED <<Cookies, cookie>>
  /\ AdapterOnly

\* The same for the cookie jar.
CookieForeignWrite(k, text) ==
  /\ Cookies' = [Cookies EXCEPT ![k] = Item(text)]
  /\ cookie' = [cookie EXCEPT ![k] = Null]
  /\ log' = <<>>
  /\ UNCHANGED <<windowSessionStorage, sessionStorage>>
  /\ AdapterOnly

NextStorage ==
  \/ \E k \in Keys, v \in StoredValues : StorageSet(k, v)
  \/ \E k \in Keys, v \in StoredValues : CookieSet(k, v)
  \/ \E k \in Keys, d \in DefaultValues : StorageGet(k, d)
  \/ \E k \in Keys, d \in DefaultValues : CookieGet(k, d)
  \/ \E k \in Keys, text \in InvalidTexts : StorageForeignWrite(k, text)
  \/ \E k \in Keys, text \in InvalidTexts : CookieForeignWrite(k, text)
  \/ \E k \in Keys : ExpireCookie(k)

\* The adapter takes no options: one configuration of the application stands
\* for all.
InitStorage ==
  /\ Init
  /\ config = [sessionIdGenerator |-> TRUE, sessionStartedCallback |-> FALSE,
               newTabOpenedCallback |-> FALSE, storageKey |-> NoKey]

SpecStorage == InitStorage /\ [][NextStorage]_vars

\* ------------------------------------------------------------------ properties
\* The values logged under a name, in order.
Calls(l, name) ==
  LET sel == SelectSeq(l, LAMBDA e : e.ev = name)
  IN  [i \in 1..Len(sel) |-> sel[i].val]

\* The log is that of a call of handler name on tab t.
HandlerOf(l, name, t) == Len(l) > 0 /\ l[1].ev = name /\ l[1].tab = t

\* This step returns from an initialize call that resolves the tracker of tab t.
Resolves(t) ==
  /\ ~Truthy(tracker[t].sessionInfo)
  /\ Truthy(tracker'[t].sessionInfo)
  /\ HandlerOf(log', "initialize", t)

\* The stores are not written in the call the log is of.
NoStoreWrite(l) == Calls(l, "sessionCookieSet") = <<>> /\ Calls(l, "sessionStorageSet") = <<>>
NoStoreRead(l) == Calls(l, "sessionCookieGet") = <<>> /\ Calls(l, "sessionStorageGet") = <<>>
NoCallback(l) ==
  Calls(l, "newTabOpenedCallback") = <<>> /\ Calls(l, "sessionStartedCallback") = <<>>

\* C1: an initialize that resolves a tab while its per-tab store and the
\* cross-tab store hold no record under the storage key invokes the generator
\* exactly once, resolves to (generated id, 1), fires newTabOpenedCallback(1)
\* once and sessionStartedCallback(id, 1) once where configured, and leaves
\* {id, tab: 1} in both stores.
C1_FirstTabOfNewSession ==
  [][\A t \in Tabs :
      LET k == tracker'[t].storageKeyName
          generated == Calls(log', "sessionIdGenerator")
          options == log'[1].val
      IN  (Resolves(t) /\ ~Truthy(sessionStorage[t][k]) /\ ~Truthy(cookie[k]))
            => /\ Len(generated) = 1
               /\ genCalls' = genCalls + 1
               /\ tracker'[t].sessionInfo = SessionInfo(generated[1].id, 1)
               /\ Calls(log', "newTabOpenedCallback")
                    = IF options.newTabOpenedCallback THEN <<[tab |-> 1]>> ELSE <<>>
               /\ Calls(log', "sessionStartedCallback")
                    = IF options.sessionStartedCallback
                        THEN <<SessionInfo(generated[1].id, 1)>> ELSE <<>>
               /\ cookie'[k] = SessionInfo(generated[1].id, 1)
               /\ sessionStorage'[t][k] = SessionInfo(generated[1].id, 1)]_vars

\* A first tab has just resolved, and both callbacks have fired.
C1_Witness ==
  \E t \in Tabs :
    /\ HandlerOf(log, "initialize", t)
    /\ Calls(log, "sessionIdGenerator") = <<[id |-> 1]>>
    /\ tracker[t].sessionInfo = SessionInfo(1, 1)
    /\ Calls(log, "newTabOpenedCallback") = <<[tab |-> 1]>>
    /\ Calls(log, "sessionStartedCallback") = <<SessionInfo(1, 1)>>
    /\ cookie[storageKey(t)] = SessionInfo(1, 1)

\* C2: an initialize that resolves a tab whose per-tab store holds no record
\* while the cross-tab store holds {id: S, tab: n} resolves to (S, n+1),
\* invokes no generator, fires no sessionStartedCallback, fires
\* newTabOpenedCallback(n+1) once where configured, and leaves {S, n+1} in
\* both stores.
C2_NewTabInExistingSession ==
  [][\A t \in Tabs :
      LET k == tracker'[t].storageKeyName
          options == log'[1].val
      IN  (Resolves(t) /\ ~Truthy(sessionStorage[t][k]) /\ Truthy(cookie[k]))
            => LET joined == SessionInfo(cookie[k].id, cookie[k].tab + 1) IN
               /\ tracker'[t].sessionInfo = joined
               /\ Calls(log', "sessionIdGenerator") = <<>>
               /\ genCalls' = genCalls
               /\ Calls(log', "sessionStartedCallback") = <<>>
               /\ Calls(log', "newTabOpenedCallback")
                    = IF options.newTabOpenedCallback THEN <<[tab |-> joined.tab]>> ELSE <<>>
               /\ cookie'[k] = joined
               /\ sessionStorage'[t][k] = joined]_vars

\* A tab has just joined a session whose count was 0: it resolved to tab 1
\* without a generator call.
C2_Witness ==
  \E t \in Tabs :
    /\ HandlerOf(log, "initialize", t)
    /\ Calls(log, "sessionIdGenerator") = <<>>
    /\ Calls(log, "newTabOpenedCallback") = <<[tab |-> 1]>>
    /\ tracker[t].sessionInfo = SessionInfo(1, 1)
    /\ cookie[storageKey(t)] = SessionInfo(1, 1)

\* C3: an initialize that resolves a tab whose per-tab store holds {S, n}
\* resolves to exactly (S, n) whatever the cross-tab store holds, invokes no
\* generator, fires no callback and writes neither store.
C3_ReloadOfKnownTab ==
  [][\A t \in Tabs :
      LET k == tracker'[t].storageKeyName
      IN  (Resolves(t) /\ Truthy(sessionStorage[t][k]))
            => /\ tracker'[t].sessionInfo = sessionStorage[t][k]
               /\ Calls(log', "sessionIdGenerator") = <<>>
               /\ genCalls' = genCalls
               /\ NoCallback(log')
               /\ NoStoreWrite(log')
               /\ sessionStorage' = sessionStorage
               /\ cookie' = cookie]_vars

\* A reloaded tab has just resolved from its per-tab store while the cross-tab
\* store holds the record of another session.
C3_Witness ==
  \E t \in Tabs :
    /\ HandlerOf(log, "initialize", t)
    /\ Truthy(tracker[t].sessionInfo)
    /\ NoStoreWrite(log)
    /\ Truthy(cookie[storageKey(t)])
    /\ cookie[storageKey(t)].id # sessionId(t)

\* This step runs the unload hook of tab t.
Unloads(t) == onbeforeunload[t] /\ HandlerOf(log', "onbeforeunload", t)

\* C4: when the unload hook of a resolved tab runs, the cross-tab store holds
\* afterwards the record it held right before with tab decreased by 1,
\* whatever count the tab's per-tab store holds.
C4_TeardownDecrementsFreshest ==
  [][\A t \in Tabs :
      LET k == tracker[t].storageKeyName
      IN  (Unloads(t) /\ Truthy(cookie[k]))
            => cookie'[k] = SessionInfo(cookie[k].id, cookie[k].tab - 1)]_vars

\* The count the cross-tab store holds under key k, 0 when it holds no record.
SharedCount(k) == IF Truthy(cookie[k]) THEN cookie[k].tab ELSE 0

\* C5: with every handler run to its end before the next and the stores
\* empty at the start, the count in the cross-tab store equals the number of
\* tabs that registered and have not unloaded.
C5_CountEqualsOpenTabs ==
  \A k \in Keys :
    SharedCount(k) = Cardinality({t \in registered : tracker[t].storageKeyName = k})

\* All resolved tabs report the id of the record in the cross-tab store, and
\* the generator has been invoked at most once.
OneSessionId ==
  /\ \A t \in Tabs :
       Truthy(tracker[t].sessionInfo)
         => /\ Truthy(cookie[storageKey(t)])
            /\ sessionId(t) = cookie[storageKey(t)].id
  /\ genCalls <= 1

NoUnloadYet == calls = Cardinality(registered)

C8_InitializeIsIdempotent ==
  [][\A t \in Tabs :
      (HandlerOf(log', "initialize", t) /\ Truthy(tracker[t].sessionInfo))
        => /\ tracker' = tracker
           /\ sessionStorage' = sessionStorage
           /\ cookie' = cookie
           /\ genCalls' = genCalls
           /\ log' = <<log'[1], Event("listenOnTabCloseEvent", t, <<>>, Null)>>
           /\ onbeforeunload'[t]]_vars

\* A resolved tracker has just been initialized again with another storage key.
C8_Witness ==
  \E t \in Tabs :
    /\ HandlerOf(log, "initialize", t)
    /\ Len(log) = 2
    /\ log[1].val.storageKey = Key(CUSTOM_KEY)
    /\ storageKey(t) = DEFAULT_STORAGE_KEY
    /\ tracker[t].sessionInfo = SessionInfo(1, 2)

\* C9: an initialize without a generator on an unresolved tracker throws
\* before any store access, fires no callback, sets no unload hook and leaves
\* the tracker as it was.
C9_MissingGeneratorRejected ==
  [][\A t \in Tabs :
      (/\ HandlerOf(log', "initialize", t)
       /\ ~Truthy(tracker[t].sessionInfo)
       /\ ~log'[1].val.sessionIdGenerator)
        => /\ log' = <<log'[1],
                       Event("throw", t, <<>>, [error |-> SESSION_ID_GENERATOR_NOT_SET_ERROR])>>
           /\ tracker' = tracker
           /\ sessionStorage' = sessionStorage
           /\ cookie' = cookie
           /\ onbeforeunload' = onbeforeunload
           /\ genCalls' = genCalls]_vars

\* A call without a generator has just thrown on the new page of a reloaded
\* tab, whose per-tab store holds a record.
C9_Witness ==
  \E t \in Tabs :
    /\ HandlerOf(log, "initialize", t)
    /\ Calls(log, "throw") = <<[error |-> SESSION_ID_GENERATOR_NOT_SET_ERROR]>>
    /\ tracker[t] = NewTracker
    /\ ~onbeforeunload[t]
    /\ Truthy(sessionStorage[t][DEFAULT_STORAGE_KEY])

\* Every store access of the call the log is of uses key k.
StoreAccessesUse(l, k) ==
  \A i \in 1..Len(l) :
    l[i].ev \in {"sessionStorageGet", "sessionStorageSet", "sessionCookieGet", "sessionCookieSet"}
      => l[i].key = k

\* C10: an initialize on an unresolved tracker with a storageKey that is empty
\* or all whitespace throws the invalid-key error, touches no store and keeps
\* the storage key; any other key given becomes the key of every store access,
\* and the default key is used when none is given.
C10_InvalidKeyRejected ==
  [][\A t \in Tabs :
      (/\ HandlerOf(log', "initialize", t)
       /\ ~Truthy(tracker[t].sessionInfo)
       /\ pc'[t] = "idle"
       /\ log'[1].val.sessionIdGenerator)
        => LET key == log'[1].val.storageKey IN
           IF key.given /\ REGEX_EMPTY_STRING(key.str)
             THEN /\ Calls(log', "throw") = <<[error |-> INVALID_STORAGE_KEY_ERROR]>>
                  /\ NoStoreRead(log') /\ NoStoreWrite(log')
                  /\ sessionStorage' = sessionStorage /\ cookie' = cookie
                  /\ storageKey(t)' = storageKey(t)
             ELSE /\ Calls(log', "throw") = <<>>
                  /\ storageKey(t)' = IF key.given THEN key.str ELSE DEFAULT_STORAGE_KEY
                  /\ StoreAccessesUse(log', storageKey(t)')]_vars

\* The records the stores hold: the cross-tab store and every per-tab store,
\* under every key.
StoredRecords ==
  {cookie[k] : k \in Keys} \cup {sessionStorage[t][k] : t \in Tabs, k \in Keys}

\* C11: under every interleaving of the tabs' initializations and unloads, as
\* long as no tab's unload hook has run a second time, every record in the
\* cross-tab store and in the per-tab stores has a count >= 0 (also the record
\* a suspended initialize has read), and every resolved tracker that
\* registered as a new tab reports a tabId >= 1.
C11_TabCountNeverNegative ==
  ~refired =>
    /\ \A r \in StoredRecords : Truthy(r) => r.tab \in Nat
    /\ \A t \in Tabs : Truthy(frame[t].sessionInfo) => frame[t].sessionInfo.tab \in Nat
    /\ \A t \in registered : Truthy(tracker[t].sessionInfo) /\ tabId(t) >= 1

\* The only tab of a session has unloaded once and is resolved again: the count
\* in both stores is 0, the lowest it gets, while another tab is inside its
\* initialize.
C11_Witness ==
  /\ ~refired
  /\ \E t \in Tabs :
       /\ t \notin registered
       /\ Truthy(tracker[t].sessionInfo)
       /\ tabId(t) = 0
       /\ cookie[storageKey(t)].tab = 0
       /\ OtherTabSuspended(t)

\* This step is the second half of an initialize of tab t that read a record
\* from the cross-tab store: it writes and returns.
RegistersFromRead(t) ==
  /\ pc[t] = "generateNewTabId"
  /\ pc'[t] = "idle"
  /\ Truthy(frame[t].sessionInfo)

\* C12: an initialize that read {id: S, tab: n} from the cross-tab store
\* resolves to (S, n+1) and writes {S, n+1} to both stores whatever the
\* cross-tab store holds by then (no lock, no retry, no compare-and-swap), and
\* a registration leaves a count other than one more than the count it found
\* only if another tab has written the cross-tab store since the read.
C12_RegistrationWritesWhatItRead ==
  [][\A t \in Tabs :
      LET k == tracker[t].storageKeyName
          read == frame[t].sessionInfo
          joined == SessionInfo(read.id, read.tab + 1)
      IN  RegistersFromRead(t)
            => /\ tracker'[t].sessionInfo = joined
               /\ cookie'[k] = joined
               /\ sessionStorage'[t][k] = joined
               /\ genCalls' = genCalls
               /\ cookie'[k].tab # cookie[k].tab + 1 => cookie[k] # read]_vars

\* The lost update: two tabs are open and no other, both registered in handlers
\* that overlapped, both resolved to the same tabId in the same session, and the
\* cross-tab store holds that session with that count, one less than the number
\* of open tabs.
C12_Witness ==
  /\ overlap
  /\ genCalls = 1
  /\ \E t, u \in Tabs :
       /\ t # u
       /\ registered = {t, u}
       /\ tracker[t].sessionInfo = tracker[u].sessionInfo
       /\ cookie[storageKey(t)] = tracker[t].sessionInfo
       /\ tabId(t) = 1
       /\ sessionStorage[t][storageKey(t)] = sessionStorage[u][storageKey(u)]
       /\ HandlerOf(log, "initialize", u)
       /\ Calls(log, "sessionCookieSet") = <<tracker[u].sessionInfo>>

\* What a get of the raw stores returns under every key, without a default, is
\* what the value stores hold: the value set last, Null if none is stored.
StoresAgree ==
  /\ \A k \in Keys : StorageServiceGet(Cookies[k], Null) = cookie[k]
  /\ \A t \in Tabs, k \in Keys :
       StorageServiceGet(windowSessionStorage[t][k], Null) = sessionStorage[t][k]

\* The log is that of a get of the adapter under key k.
GetOf(l, name, k) ==
  /\ Len(l) = 1
  /\ l[1].ev = name
  /\ l[1].key = k
  /\ "returned" \in DOMAIN l[1].val

\* What the claim says a get returns: the default when nothing is stored, null
\* when the text stored is not serialized data, else the value set last.
Expected(item, defaultValue, setLast) ==
  IF item = NoItem THEN defaultValue
  ELSE IF item.text \in InvalidTexts THEN Null
  ELSE setLast

\* C13: for the per-tab store and the cross-tab store alike, a get returns the
\* value the last set under the key wrote, the default supplied (null when none
\* is) when nothing is stored under the key, and null when the text stored is
\* not serialized data; it never returns anything else, such as an error.
C13_AdapterPresenceOrAbsence ==
  [][\A k \in Keys :
      /\ GetOf(log', "sessionStorageGet", k)
           => log'[1].val.returned
                = Expected(windowSessionStorage[StoragePage][k], log'[1].val.defaultValue,
                           sessionStorage[StoragePage][k])
      /\ GetOf(log', "sessionCookieGet", k)
           => log'[1].val.returned
                = Expected(Cookies[k], log'[1].val.defaultValue, cookie[k])]_vars

\* A get of the cross-tab store with a default supplied has just returned the
\* record {id: 12, tab: -3} a set wrote, while the per-tab store holds a text
\* that is not JSON under the same key.
C13_Witness ==
  \E k \in Keys :
    /\ GetOf(log, "sessionCookieGet", k)
    /\ log[1].val.defaultValue # Null
    /\ log[1].val.returned = SessionInfo(12, 0 - 3)
    /\ windowSessionStorage[StoragePage][k] # NoItem
    /\ windowSessionStorage[StoragePage][k].text \in InvalidTexts

\* Where in the log the events of a name stand.
At(l, name) == {i \in 1..Len(l) : l[i].ev = name}

\* Every event named first stands before every event named second.
Before(l, first, second) == \A i \in At(l, first), j \in At(l, second) : i < j

ResolvedPageGoes(t) == Truthy(tracker[t].sessionInfo) /\ tracker'[t] = NewTracker

\* This step is a page going away without running a handler: the only counted
\* call that leaves an empty log.
PageGoesSilently == calls' = calls + 1 /\ log' = <<>>

\* The teardown of tab t runs exactly once in this step: one run of the hook,
\* which writes the record the tab's store held with the count lowered by 1,
\* once to each store.
RunsTeardownOnce(t) ==
  LET k == tracker[t].storageKeyName
      held == sessionStorage[t][k]
      lowered == SessionInfo(held.id, held.tab - 1)
  IN  /\ Cardinality(At(log', "onbeforeunload")) = 1
      /\ HandlerOf(log', "onbeforeunload", t)
      /\ Calls(log', "sessionCookieSet") = <<lowered>>
      /\ Calls(log', "sessionStorageSet") = <<lowered>>
      /\ cookie'[k] = lowered

\* A teardown runs for resolved trackers only, and a page that goes away
\* without one leaves the cross-tab store as it was.
NoTeardownUnlessResolved ==
  /\ \A t \in Tabs : HandlerOf(log', "onbeforeunload", t) => ResolvedPageGoes(t)
  /\ PageGoesSilently
       => /\ cookie' = cookie
          /\ \A t \in Tabs : ~Truthy(tracker[t].sessionInfo) \/ tracker'[t] = tracker[t]

\* The part of C15 that is about how often the teardown runs: once for a
\* resolved tracker, however often initialize was called, and never for a
\* tracker that is not resolved.
TeardownOncePerUnload ==
  [][/\ \A t \in Tabs : ResolvedPageGoes(t) => RunsTeardownOnce(t)
     /\ NoTeardownUnlessResolved]_vars

\* C15: when the page of a tab goes away, however often initialize was called
\* on its tracker, the teardown runs exactly once if the tracker is resolved
\* and lowers the count in the cross-tab store by exactly 1; no teardown runs
\* for a tracker that is not resolved.
C15_OneUnloadDecrementsOnce ==
  [][/\ \A t \in Tabs :
          ResolvedPageGoes(t)
            => /\ RunsTeardownOnce(t)
               /\ LET k == tracker[t].storageKeyName IN
                  cookie'[k].tab = cookie[k].tab - 1
     /\ NoTeardownUnlessResolved]_vars

\* What the teardown of tab t does in this step apart from the id it writes:
\* it writes one record to both stores, leaves neither empty, leaves the
\* per-tab stores of the other tabs alone and invokes no generator or callback.
TeardownWritesOneRecord(t) ==
  LET k == tracker[t].storageKeyName IN
  /\ Truthy(cookie'[k])
  /\ Calls(log', "sessionCookieSet") = <<cookie'[k]>>
  /\ Calls(log', "sessionStorageSet") = <<cookie'[k]>>
  /\ \A u \in Tabs \ {t} : sessionStorage'[u] = sessionStorage[u]
  /\ genCalls' = genCalls
  /\ Calls(log', "sessionIdGenerator") = <<>>
  /\ NoCallback(log')

\* The part of C16 that is not about the id of the record.
TeardownPersistsOneRecord ==
  [][\A t \in Tabs : Unloads(t) => TeardownWritesOneRecord(t)]_vars

\* C16: after the unload hook of a resolved tab has run, the cross-tab store
\* and the tab's per-tab store hold the same record, whose id is the id the
\* cross-tab store held before; neither store is empty, the per-tab stores of
\* the other tabs are unchanged, and no generator or callback was invoked.
C16_TeardownPersistsSameSession ==
  [][\A t \in Tabs :
      LET k == tracker[t].storageKeyName IN
      Unloads(t)
        => /\ TeardownWritesOneRecord(t)
           /\ Truthy(cookie[k]) => cookie'[k].id = cookie[k].id]_vars

\* Does the per-tab store (its values ss, its items as text) hold under the
\* tracker's key the record the tracker resolved.
HoldsRecordOf(this, ss, items) ==
  /\ ss[this.storageKeyName] = this.sessionInfo
  /\ StorageServiceGet(items[this.storageKeyName], Null) = this.sessionInfo

\* Is the tracker of tab t resolved, with the record of its per-tab store equal
\* to what its accessors return.
ResolvedAs(t) ==
  /\ Truthy(tracker[t].sessionInfo)
  /\ SessionInfo(sessionId(t), tabId(t)) = tracker[t].sessionInfo
  /\ HoldsRecordOf(tracker[t], sessionStorage[t], windowSessionStorage[t])

\* C17: from the return of a successful initialize until the tab's unload hook
\* runs, the tracker stays resolved, sessionId and tabId keep returning the
\* values resolved at initialization, and the record of the per-tab store stays
\* equal to (sessionId, tabId), whatever the other tabs do.
C17_IdentityStableUntilUnload ==
  [][\A t \in Tabs :
      /\ Truthy(tracker[t].sessionInfo)
           => /\ ResolvedAs(t)
              /\ ~Unloads(t)
                   => /\ Truthy(tracker'[t].sessionInfo)
                      /\ sessionId(t)' = sessionId(t)
                      /\ tabId(t)' = tabId(t)
                      /\ storageKey(t)' = storageKey(t)
      /\ Truthy(tracker'[t].sessionInfo)
           => HoldsRecordOf(tracker'[t], sessionStorage'[t], windowSessionStorage'[t])]_vars

\* A resolved tab stands while the call of another tab has just left a record
\* in the cross-tab store that differs from the tab's own.
C17_Witness ==
  \E t \in Tabs :
    /\ ResolvedAs(t)
    /\ Truthy(cookie[storageKey(t)])
    /\ cookie[storageKey(t)] # SessionInfo(sessionId(t), tabId(t))
    /\ log # <<>>
    /\ log[1].tab # t

\* Is this step a reload of tab t: its unload hook, then initialize on the new page.
Reloads(t) ==
  /\ HandlerOf(log', "onbeforeunload", t)
  /\ \E i \in 2..Len(log') : log'[i].ev = "initialize" /\ log'[i].tab = t

\* The part of C18 that holds: a reload resolves the same sessionId, from the
\* per-tab store, without the generator or a callback.
ReloadKeepsSessionId ==
  [][\A t \in Tabs :
      Reloads(t)
        => /\ Truthy(tracker'[t].sessionInfo)
           /\ sessionId(t)' = sessionId(t)
           /\ genCalls' = genCalls
           /\ NoCallback(log')]_vars

\* C18: a reload, the unload hook followed by initialize on a new tracker in
\* the same tab, resolves the same sessionId and the same tabId as before, and
\* leaves the cross-tab tab count as it was; so after any number of reloads
\* the tab has the identity it registered with.
C18_ReloadKeepsIdentity ==
  [][\A t \in Tabs :
      LET k == storageKey(t) IN
      Reloads(t)
        => /\ Truthy(tracker'[t].sessionInfo)
           /\ sessionId(t)' = sessionId(t)
           /\ tabId(t)' = tabId(t)
           /\ Truthy(cookie[k]) => cookie'[k].tab = cookie[k].tab]_vars

\* Did reading an accessor raise an error.
Raises(outcome) == "raised" \in DOMAIN outcome

\* Has initialize never completed on the tracker of tab t.
NeverInitialized(t) == ~Truthy(tracker[t].sessionInfo)

\* The part of C19 that holds: before initialize has completed, reading tabId
\* or sessionId raises an error; afterwards each returns the resolved value.
IdentityAccessorsFailFast ==
  \A t \in Tabs :
    IF NeverInitialized(t)
      THEN Raises(get_tabId(t)) /\ Raises(get_sessionId(t))
      ELSE /\ get_tabId(t) = Returned(tracker[t].sessionInfo.tab)
           /\ get_sessionId(t) = Returned(tracker[t].sessionInfo.id)

\* A tracker whose only initialize call failed.
IdentityAccessorsFailFast_Witness ==
  \E t \in Tabs :
    /\ NeverInitialized(t)
    /\ HandlerOf(log, "initialize", t)
    /\ Calls(log, "throw") # <<>>

\* C19: on a tracker whose initialize has never completed successfully, reading
\* the tab number, the session identifier or the effective storage key raises
\* an error instead of returning a value.
C19_AccessorsFailFast ==
  \A t \in Tabs :
    NeverInitialized(t)
      => /\ Raises(get_tabId(t))
         /\ Raises(get_sessionId(t))
         /\ Raises(get_storageKey(t))

====
